---- MODULE Spec2Model ----
(***************************************************************************)
(* A model of the chat room server of go-chatroom (chatroom_server.go).    *)
(*                                                                         *)
(* One goroutine, connPool.execute, owns the writes to the connection      *)
(* pool: it receives connections on the unbuffered channels register and   *)
(* unregister and appends to or splices c.connections.  One goroutine per  *)
(* accepted WebSocket runs registerServer -> readMessage -> Broadcast.     *)
(* Broadcast ranges over c.connections directly, without going through     *)
(* the channels, so its reads of the slice race with execute's writes.     *)
(*                                                                         *)
(* A Go slice is a header (array, len) over a backing array.  The model    *)
(* keeps the backing arrays in heap and the header in connections.  The    *)
(* header is read and written in one step; the elements of the backing     *)
(* array are read (by Broadcast) and moved (by removeConn's append, a      *)
(* memmove) one element per step, so a racing reader can see every         *)
(* intermediate content of the array.                                      *)
(*                                                                         *)
(* Spec is the server.  FairSpec is the server with execute scheduled      *)
(* fairly, for the properties that say something happens in the end.       *)
(* RemoveSpec is removeConn by itself, on every slice and element.         *)
(* ClientSpec is the client library (ChatClient: Register, Send, Read and  *)
(* keepWebsocketAlive) by itself.                                          *)
(***************************************************************************)
EXTENDS Integers, Sequences, FiniteSets, TLC

\* Number of WebSocket connections the server accepts in a behaviour.
NConns == 3

\* Number of payloads the sessions receive (and broadcast) in a behaviour.
MaxMsgs == 1

Conns == 1..NConns

\* Number of ChatClient objects, of Register calls of one client, and of
\* Send and Read calls of one client in a behaviour.
NClients == 1
MaxDials == 1
MaxCalls == 2

Clients == 1..NClients

\* The longest slice removeConn is applied to in RemoveSpec.
MaxLen == 3

\* The nil *websocket.Conn / the nil backing array of a nil slice.
Nil == 0

\* The passwords NewChatServer is constructed with: a public room or a secret.
Passwords == {"", "s3cr3t"}

\* The values of the url query a client connects with: no pwd parameter, or
\* one pwd parameter with the given value.
Queries == {<<>>, <<"s3cr3t">>, <<"wrong">>}

VARIABLES
  password,     \* ChatServer.password
  connections,  \* connPool.connections: the slice header [arr, len]
  heap,         \* the backing arrays allocated by append, by array id
  execpc,       \* where connPool.execute is: "select", "append", "scan", "copy"
  execR,        \* execute's r, the connection received from a channel
  execI,        \* removeConn: the position the splice is copying into
  pc,           \* per connection: where its registerServer goroutine is
  query,        \* per connection: the pwd values of ws.Request().URL.Query(),
                \* kept until registerServer has gone on to readMessage
  transport,    \* per connection: "open", or "severed" by the peer or network
  closed,       \* per connection: ws.Close() has been called
  brange,       \* per session: the slice header Broadcast's range loop iterates
  bidx,         \* per session: the number of elements the range loop has passed
  bws,          \* per session: the ws whose Send failed in Broadcast, or Nil
  nmsgs,        \* the number of payloads received so far
  \* history variables, written by the actions and read only by the properties
  members,      \* the content of c.connections after the last append or
                \* splice that execute completed
  sent,         \* per session: the connections the running Broadcast call has
                \* attempted delivery to, in order
  bpre,         \* per session: members when the Broadcast call started
  bviews,       \* per session: every value members took during the call
  bmods,        \* per session: the connections whose append or splice ran
                \* between the start of the call and now
  bowed,        \* per session: the connections confirmed when the call
                \* started and healthy ever since
  admitted,     \* per connection: the password test let it in
  unreg,        \* per connection: the unregister requests accepted for it
  evX,          \* the connection of the last unregister request execute
                \* accepted from a Broadcast call (Nil: the last request
                \* accepted was not one), ...
  evFrom,       \* ... the session that made the call, ...
  evPre,        \* ... members when that call started, ...
  evOK,         \* ... and whether execute touched only that connection since
  \* the clients (ChatClient)
  conn,         \* per client: c.conn, Nil or the WebSocket of its last Dial
  rawQuery,     \* per client: the pwd values of c.chatServer.url_.RawQuery
  sock,         \* per client: the WebSockets it dialled, each "open",
                \* "broken" (the transport failed) or "closed" (ws.Close())
  run,          \* per client: its process is "running" or "exited" (log.Fatal)
  out,          \* per client: the last call of Send or Read and what it returned
  \* history variables of the clients
  ncalls,       \* per client: the number of its Send and Read calls
  io,           \* per client: the number of websocket.Message.Send and
                \* Receive calls its Send and Read calls made
  refused       \* per client: a call of it returned the not-connected error

vars == <<password, connections, heap, execpc, execR, execI, pc, query,
          transport, closed, brange, bidx, bws, nmsgs, sent, bpre, bviews,
          bmods, bowed, admitted, unreg, members, evX, evFrom, evPre, evOK,
          conn, rawQuery, sock, run, out, ncalls, io, refused>>

\* The variables of the server and those of the clients.
serverVars == <<password, connections, heap, execpc, execR, execI, pc, query,
                transport, closed, brange, bidx, bws, nmsgs, sent, bpre,
                bviews, bmods, bowed, admitted, unreg, members, evX, evFrom,
                evPre, evOK>>
clientVars == <<conn, rawQuery, sock, run, out, ncalls, io, refused>>

----------------------------------------------------------------------------
\* Helpers on slices

Range(s) == {s[i] : i \in 1..Len(s)}

\* The content of the slice with header h, read from the heap as it is now.
View(h) == IF h.arr = Nil THEN <<>> ELSE [i \in 1..h.len |-> heap[h.arr][i]]

\* Membership: the content of c.connections.
Membership == View(connections)

\* cap(slice) of the slice with header h.
Cap(h) == IF h.arr = Nil THEN 0 ELSE Len(heap[h.arr])

----------------------------------------------------------------------------
\* The pure pieces of the code

\* url.Values.Get("pwd"): the first value of the parameter, "" when absent.
QueryGet(q) == IF q = <<>> THEN "" ELSE q[1]

\* The admission test with the emptiness test on the supplied pwd instead of
\* on the server's password.
AdmitEmptyPwd(serverPwd, q) == QueryGet(q) = "" \/ serverPwd = QueryGet(q)

\* registerServer's admission test.
Admit(serverPwd, q) == serverPwd = "" \/ serverPwd = QueryGet(q)

\* websocket.Message.Send(ws, message) returns an error.
SendFails(ws) == transport[ws] # "open" \/ closed[ws]

\* websocket.Message.Receive(ws, &message) returns an error.
ReceiveFails(ws) == transport[ws] # "open" \/ closed[ws]

\* A range that stops one element early.
RangeOverShort(h) == [arr |-> h.arr, len |-> IF h.len > 0 THEN h.len - 1 ELSE 0]

\* The range expression of Broadcast's loop, evaluated once before the first
\* iteration: a copy of the slice header.
RangeOver(h) == h

\* readMessage returning when Broadcast returned an error.
AfterBroadcastStop(failed) == IF failed THEN "ret" ELSE "recv"

\* Where readMessage goes after s.Broadcast(message) returned: the result is
\* dropped and the loop goes on to the next Receive.
AfterBroadcast(failed) == "recv"

\* The capacity append gives the new backing array of a full slice of
\* pointers (Go's growslice for small slices).
GrowCap(oldcap) == IF oldcap = 0 THEN 1 ELSE 2 * oldcap

\* append(c.connections, r): in place when there is room (the element is
\* stored behind the slice's end, then the length grows), into a new backing
\* array otherwise.  The result is the new header and the new heap.
AppendConn(h, r) ==
  IF h.len < Cap(h)
    THEN [hdr |-> [arr |-> h.arr, len |-> h.len + 1],
          heap |-> [heap EXCEPT ![h.arr][h.len + 1] = r]]
    ELSE [hdr |-> [arr |-> Len(heap) + 1, len |-> h.len + 1],
          heap |-> Append(heap,
                     [i \in 1..GrowCap(Cap(h)) |->
                        IF i <= h.len THEN View(h)[i]
                        ELSE IF i = h.len + 1 THEN r ELSE Nil])]

\* readMessage with the return after its unregister send left out: the loop
\* goes on to the next Receive.
AfterUnregisterLoop == "recv"

\* readMessage after "unregister <- ws" and the log line: return.
AfterUnregister == "ret"

\* execute returning after one case instead of looping.
AfterCaseStop == "done"

\* execute after a case of its select: the for loop goes back to the select.
AfterCase == "select"

\* The scan that never finds elem.
IndexOfNever(slice, elem) == 0

\* removeConn's loop: the first position of elem in slice, 0 when the loop
\* ends without finding it.
IndexOf(slice, elem) ==
  IF \E i \in 1..Len(slice) : slice[i] = elem
    THEN CHOOSE i \in 1..Len(slice) :
           slice[i] = elem /\ \A j \in 1..(i - 1) : slice[j] # elem
    ELSE 0

\* removeConn returning a slice of newSliceLen elements when elem is not found.
NotFoundShort(h) == [arr |-> h.arr, len |-> IF h.len > 0 THEN h.len - 1 ELSE 0]

\* removeConn when elem is not in the slice: "return slice".
NotFound(h) == h

\* The splice with its result dropped: the header keeps its length.
SplicedKeepsLen(h) == h

\* removeConn when elem is found: newSlice = append(slice[:i], slice[i+1:]...)
\* has the header of slice with one element less, over the same array.
Spliced(h) == [arr |-> h.arr, len |-> h.len - 1]

\* The memmove left out.
MoveElemNone(arr, i) == arr

\* One element of the memmove of append(slice[:i], slice[i+1:]...): the
\* element at position i+1 is copied to position i (positions from 1).
MoveElem(arr, i) == [arr EXCEPT ![i] = arr[i + 1]]

----------------------------------------------------------------------------
\* The pure pieces of the client (ChatClient)

\* The errors Send and Read return, by the text fmt.Errorf is given (the
\* transport's own error follows the colon); NoErr is the nil error.
NoErr == "nil"
ErrNotConnected == "Websocket connection do not establish, please register first."
ErrSend == "Can not send message to server: "
ErrRead == "Can not receive message from server: "

\* Send without the test of c.conn.
SendErrUnchecked(c, up) == IF ~up THEN ErrSend ELSE NoErr

\* ChatClient.Send: the error returned, c being c.conn and up telling
\* whether websocket.Message.Send on it succeeds.
SendErr(c, up) ==
  IF c = Nil THEN ErrNotConnected
  ELSE IF ~up THEN ErrSend
  ELSE NoErr

\* ChatClient.Read: the error returned, up telling whether
\* websocket.Message.Receive on c.conn succeeds.
ReadErr(c, up) ==
  IF c = Nil THEN ErrNotConnected
  ELSE IF ~up THEN ErrRead
  ELSE NoErr

\* The number of calls on the transport that Send or Read makes: none when
\* c.conn is nil, one otherwise.
TransportCalls(c) == IF c = Nil THEN 0 ELSE 1

----------------------------------------------------------------------------
\* States of a session, in the words of the design

Pending(c) == pc[c] = "check"
Admitted(c) == pc[c] = "sendreg"
Active(c) == pc[c] \in {"recv", "bcast", "bunreg"}
Closed(c) == pc[c] \in {"ret", "closed"}

\* The session's register request has been accepted: registerServer went on
\* to readMessage.
Confirmed(c) == pc[c] \in {"recv", "bcast", "bunreg", "sendunreg"}
                  \/ (Closed(c) /\ admitted[c])

\* The sessions with a Broadcast call in progress or just ended by a failure.
InCall(s) == pc[s] \in {"bcast", "bunreg"}

----------------------------------------------------------------------------
\* NewChatClient: no connection yet.
ClientInit ==
  /\ conn = [k \in Clients |-> Nil]
  /\ rawQuery = [k \in Clients |-> <<>>]
  /\ sock = [k \in Clients |-> <<>>]
  /\ run = [k \in Clients |-> "running"]
  /\ out = [k \in Clients |-> [op |-> "none", message |-> "", err |-> NoErr]]
  /\ ncalls = [k \in Clients |-> 0]
  /\ io = [k \in Clients |-> 0]
  /\ refused = [k \in Clients |-> FALSE]

Init ==
  /\ password \in Passwords
  /\ connections = [arr |-> Nil, len |-> 0]
  /\ heap = <<>>
  /\ execpc = "select"
  /\ execR = Nil
  /\ execI = 0
  /\ pc = [c \in Conns |-> "none"]
  /\ query = [c \in Conns |-> <<>>]
  /\ transport = [c \in Conns |-> "open"]
  /\ closed = [c \in Conns |-> FALSE]
  /\ brange = [c \in Conns |-> [arr |-> Nil, len |-> 0]]
  /\ bidx = [c \in Conns |-> 0]
  /\ bws = [c \in Conns |-> Nil]
  /\ nmsgs = 0
  /\ sent = [c \in Conns |-> <<>>]
  /\ bpre = [c \in Conns |-> <<>>]
  /\ bviews = [c \in Conns |-> {}]
  /\ bmods = [c \in Conns |-> {}]
  /\ bowed = [c \in Conns |-> {}]
  /\ admitted = [c \in Conns |-> FALSE]
  /\ unreg = [c \in Conns |-> 0]
  /\ members = <<>>
  /\ evX = Nil
  /\ evFrom = Nil
  /\ evPre = <<>>
  /\ evOK = FALSE
  /\ ClientInit

execVars == <<connections, heap, execpc, execR, execI>>
callVars == <<brange, bidx, bws, sent, bpre>>
histVars == <<bviews, bmods, bowed, admitted>>
evVars == <<evX, evFrom, evPre, evOK>>
noEv == evX' = Nil /\ evFrom' = Nil /\ evPre' = <<>> /\ evOK' = FALSE

\* The history of the running calls after execute wrote to the pool for r ...
Touched(r) ==
  bmods' = [s \in Conns |-> IF InCall(s) THEN bmods[s] \cup {r} ELSE bmods[s]]

\* ... and after it completed an append or a splice, leaving content m.
Committed(m) ==
  /\ members' = m
  /\ bviews' = [s \in Conns |->
                  IF pc[s] = "bcast" THEN bviews[s] \cup {m} ELSE bviews[s]]

----------------------------------------------------------------------------
\* The sessions: registerServer, readMessage, Broadcast

\* The http server accepts a WebSocket and starts registerServer(ws) in a
\* goroutine of its own.  Connections are numbered in the order they arrive.
Accept(c, q) ==
  /\ pc[c] = "none"
  /\ \A d \in Conns : d < c => pc[d] # "none"
  /\ pc' = [pc EXCEPT ![c] = "check"]
  /\ query' = [query EXCEPT ![c] = q]
  /\ UNCHANGED clientVars
  /\ UNCHANGED <<password, execVars, transport, closed, callVars, nmsgs,
                 histVars, unreg, members, evVars>>

\* registerServer: the password test.  A wrong password logs and returns.
CheckPassword(c) ==
  /\ pc[c] = "check"
  /\ pc' = [pc EXCEPT ![c] = IF Admit(password, query[c]) THEN "sendreg" ELSE "ret"]
  /\ admitted' = [admitted EXCEPT ![c] = Admit(password, query[c])]
  /\ UNCHANGED clientVars
  /\ UNCHANGED <<password, execVars, query, transport, closed, callVars, nmsgs,
                 bviews, bmods, bowed, unreg, members, evVars>>

\* The peer goes away or the network fails: from now on Receive and Send on
\* this connection return an error.
Sever(c) ==
  /\ pc[c] \notin {"none", "closed"}
  /\ transport[c] = "open"
  /\ transport' = [transport EXCEPT ![c] = "severed"]
  /\ bowed' = [s \in Conns |-> bowed[s] \ {c}]
  /\ UNCHANGED clientVars
  /\ UNCHANGED <<password, execVars, pc, query, closed, callVars, nmsgs,
                 bviews, bmods, admitted, unreg, members, evVars>>

\* readMessage: Receive returns a payload, and Broadcast starts: the range
\* expression s.serverConnPool.connections is evaluated once, here.
ReceiveMsg(c) ==
  /\ pc[c] = "recv"
  /\ ~ReceiveFails(c)
  /\ nmsgs < MaxMsgs
  /\ nmsgs' = nmsgs + 1
  /\ pc' = [pc EXCEPT ![c] = "bcast"]
  /\ brange' = [brange EXCEPT ![c] = RangeOver(connections)]
  /\ bidx' = [bidx EXCEPT ![c] = 0]
  /\ bws' = [bws EXCEPT ![c] = Nil]
  /\ sent' = [sent EXCEPT ![c] = <<>>]
  /\ bpre' = [bpre EXCEPT ![c] = members]
  /\ bviews' = [bviews EXCEPT ![c] = {members}]
  /\ bmods' = [bmods EXCEPT ![c] = IF execpc = "copy" THEN {execR} ELSE {}]
  /\ bowed' = [bowed EXCEPT ![c] =
                 {d \in Conns : Confirmed(d) /\ pc[d] # "sendunreg"
                                  /\ ~Closed(d) /\ transport[d] = "open"}]
  /\ UNCHANGED clientVars
  /\ UNCHANGED <<password, execVars, query, transport, closed, admitted,
                 unreg, members, evVars>>

\* readMessage: Receive returns an error; the session goes to unregister.
ReceiveErr(c) ==
  /\ pc[c] = "recv"
  /\ ReceiveFails(c)
  /\ pc' = [pc EXCEPT ![c] = "sendunreg"]
  /\ UNCHANGED clientVars
  /\ UNCHANGED <<password, execVars, query, transport, closed, callVars, nmsgs,
                 histVars, unreg, members, evVars>>

\* readMessage: Receive returns an error on a transport that still works (a
\* frame over the payload limit); the session goes to unregister all the same.
BadFrame(c) ==
  /\ pc[c] = "recv"
  /\ ~ReceiveFails(c)
  /\ pc' = [pc EXCEPT ![c] = "sendunreg"]
  /\ bowed' = [s \in Conns |-> bowed[s] \ {c}]
  /\ UNCHANGED clientVars
  /\ UNCHANGED <<password, execVars, query, transport, closed, callVars, nmsgs,
                 bviews, bmods, admitted, unreg, members, evVars>>

\* Broadcast: one iteration of the range loop.  The element is read from the
\* backing array as it is now; a failed Send ends the loop.
BroadcastSend(s) ==
  /\ pc[s] = "bcast"
  /\ bidx[s] < brange[s].len
  /\ LET ws == heap[brange[s].arr][bidx[s] + 1] IN
       /\ sent' = [sent EXCEPT ![s] = Append(sent[s], ws)]
       /\ IF SendFails(ws)
            THEN /\ pc' = [pc EXCEPT ![s] = "bunreg"]
                 /\ bws' = [bws EXCEPT ![s] = ws]
                 /\ UNCHANGED bidx
            ELSE /\ bidx' = [bidx EXCEPT ![s] = bidx[s] + 1]
                 /\ UNCHANGED <<pc, bws>>
  /\ UNCHANGED clientVars
  /\ UNCHANGED <<password, execVars, query, transport, closed, brange, bpre,
                 nmsgs, histVars, unreg, members, evVars>>

\* Broadcast: the range loop is over, return nil; readMessage receives again.
BroadcastReturn(s) ==
  /\ pc[s] = "bcast"
  /\ bidx[s] = brange[s].len
  /\ pc' = [pc EXCEPT ![s] = AfterBroadcast(FALSE)]
  /\ brange' = [brange EXCEPT ![s] = [arr |-> Nil, len |-> 0]]
  /\ bidx' = [bidx EXCEPT ![s] = 0]
  /\ sent' = [sent EXCEPT ![s] = <<>>]
  /\ bpre' = [bpre EXCEPT ![s] = <<>>]
  /\ bviews' = [bviews EXCEPT ![s] = {}]
  /\ bmods' = [bmods EXCEPT ![s] = {}]
  /\ bowed' = [bowed EXCEPT ![s] = {}]
  /\ UNCHANGED clientVars
  /\ UNCHANGED <<password, execVars, query, transport, closed, bws, nmsgs,
                 admitted, unreg, members, evVars>>

\* registerServer returns: the deferred ws.Close() runs.
Close(c) ==
  /\ pc[c] = "ret"
  /\ closed' = [closed EXCEPT ![c] = TRUE]
  /\ pc' = [pc EXCEPT ![c] = "closed"]
  /\ UNCHANGED clientVars
  /\ UNCHANGED <<password, execVars, query, transport, callVars, nmsgs,
                 histVars, unreg, members, evVars>>

----------------------------------------------------------------------------
\* connPool.execute, and the channel sends it receives

\* case r := <-c.register, with registerServer's "register <- ws": the
\* unbuffered send and the receive complete together; the sender goes on to
\* readMessage, execute goes on to the append.
RecvRegister(c) ==
  /\ execpc = "select"
  /\ pc[c] = "sendreg"
  /\ execpc' = "append"
  /\ execR' = c
  /\ pc' = [pc EXCEPT ![c] = "recv"]
  /\ query' = [query EXCEPT ![c] = <<>>]
  /\ noEv
  /\ UNCHANGED clientVars
  /\ UNCHANGED <<password, connections, heap, execI, transport, closed,
                 callVars, nmsgs, histVars, unreg, members>>

\* c.connections = append(c.connections, r)
ExecAppend ==
  /\ execpc = "append"
  /\ LET a == AppendConn(connections, execR) IN
       /\ connections' = a.hdr
       /\ heap' = a.heap
       /\ Touched(execR)
       /\ Committed([i \in 1..a.hdr.len |-> a.heap[a.hdr.arr][i]])
  /\ execpc' = AfterCase
  /\ execR' = Nil
  /\ UNCHANGED clientVars
  /\ UNCHANGED <<password, execI, pc, query, transport, closed, callVars,
                 nmsgs, bowed, admitted, unreg, evVars>>

\* case r := <-c.unregister, with readMessage's "unregister <- ws".
RecvUnregisterRead(c) ==
  /\ execpc = "select"
  /\ pc[c] = "sendunreg"
  /\ execpc' = "scan"
  /\ execR' = c
  /\ pc' = [pc EXCEPT ![c] = AfterUnregister]
  /\ unreg' = [unreg EXCEPT ![c] = @ + 1]
  /\ noEv
  /\ UNCHANGED clientVars
  /\ UNCHANGED <<password, connections, heap, execI, query, transport, closed,
                 callVars, nmsgs, histVars, members>>

\* case r := <-c.unregister, with Broadcast's "unregister <- ws": Broadcast
\* then returns the error to readMessage.
RecvUnregisterBroadcast(s) ==
  /\ execpc = "select"
  /\ pc[s] = "bunreg"
  /\ execpc' = "scan"
  /\ execR' = bws[s]
  /\ pc' = [pc EXCEPT ![s] = AfterBroadcast(TRUE)]
  /\ unreg' = [unreg EXCEPT ![bws[s]] = @ + 1]
  /\ evX' = bws[s]
  /\ evFrom' = s
  /\ evPre' = bpre[s]
  /\ evOK' = (bmods[s] \subseteq {bws[s]})
  /\ brange' = [brange EXCEPT ![s] = [arr |-> Nil, len |-> 0]]
  /\ bidx' = [bidx EXCEPT ![s] = 0]
  /\ bws' = [bws EXCEPT ![s] = Nil]
  /\ sent' = [sent EXCEPT ![s] = <<>>]
  /\ bpre' = [bpre EXCEPT ![s] = <<>>]
  /\ bviews' = [bviews EXCEPT ![s] = {}]
  /\ bmods' = [bmods EXCEPT ![s] = {}]
  /\ bowed' = [bowed EXCEPT ![s] = {}]
  /\ UNCHANGED clientVars
  /\ UNCHANGED <<password, connections, heap, execI, query, transport, closed,
                 nmsgs, admitted, members>>

\* removeConn: the loop looks for elem.  Not found: the slice is returned as
\* it is and assigned back.  Found at i: the splice starts.
ExecScan ==
  /\ execpc = "scan"
  /\ LET i == IndexOf(Membership, execR) IN
       IF i = 0
         THEN /\ connections' = NotFound(connections)
              /\ execpc' = AfterCase
              /\ execR' = Nil
              /\ UNCHANGED execI
         ELSE /\ execpc' = "copy"
              /\ execI' = i
              /\ UNCHANGED <<connections, execR>>
  /\ UNCHANGED clientVars
  /\ UNCHANGED <<password, heap, pc, query, transport, closed, callVars, nmsgs,
                 histVars, unreg, members, evVars>>

\* removeConn: append(slice[:i], slice[i+1:]...) moves the tail down by one,
\* an element per step, in place ...
ExecCopy ==
  /\ execpc = "copy"
  /\ execI < connections.len
  /\ heap' = [heap EXCEPT ![connections.arr] = MoveElem(@, execI)]
  /\ execI' = execI + 1
  /\ Touched(execR)
  /\ UNCHANGED clientVars
  /\ UNCHANGED <<password, connections, execpc, execR, pc, query, transport,
                 closed, callVars, nmsgs, bviews, bowed, admitted, unreg,
                 members, evVars>>

\* ... and the shorter slice is returned and assigned to c.connections.
ExecStore ==
  /\ execpc = "copy"
  /\ execI = connections.len
  /\ connections' = Spliced(connections)
  /\ execpc' = AfterCase
  /\ execR' = Nil
  /\ execI' = 0
  /\ Touched(execR)
  /\ Committed([i \in 1..Spliced(connections).len |-> heap[connections.arr][i]])
  /\ UNCHANGED clientVars
  /\ UNCHANGED <<password, heap, pc, query, transport, closed, callVars, nmsgs,
                 bowed, admitted, unreg, evVars>>

----------------------------------------------------------------------------
\* The clients: ChatClient.Register, Send, Read and keepWebsocketAlive

\* websocket.Message.Send and Receive on c.conn of client k succeed.
Up(k) == conn[k] # Nil /\ sock[k][conn[k]] = "open"

\* Register(password), websocket.Dial succeeding: c.conn is the new WebSocket,
\* and keepWebsocketAlive is started on it.
Register(k, pw) ==
  /\ run[k] = "running"
  /\ Len(sock[k]) < MaxDials
  /\ rawQuery' = [rawQuery EXCEPT ![k] = <<pw>>]
  /\ sock' = [sock EXCEPT ![k] = Append(@, "open")]
  /\ conn' = [conn EXCEPT ![k] = Len(sock[k]) + 1]
  /\ UNCHANGED <<run, out, ncalls, io, refused>>
  /\ UNCHANGED serverVars

\* Register(password), websocket.Dial returning an error: log.Fatal ends the
\* process.
RegisterFatal(k, pw) ==
  /\ run[k] = "running"
  /\ Len(sock[k]) < MaxDials
  /\ rawQuery' = [rawQuery EXCEPT ![k] = <<pw>>]
  /\ run' = [run EXCEPT ![k] = "exited"]
  /\ UNCHANGED <<conn, sock, out, ncalls, io, refused>>
  /\ UNCHANGED serverVars

\* Send(message)
Send(k) ==
  /\ run[k] = "running"
  /\ ncalls[k] < MaxCalls
  /\ ncalls' = [ncalls EXCEPT ![k] = @ + 1]
  /\ io' = [io EXCEPT ![k] = @ + TransportCalls(conn[k])]
  /\ out' = [out EXCEPT ![k] = [op |-> "Send", message |-> "",
                                err |-> SendErr(conn[k], Up(k))]]
  /\ refused' = [refused EXCEPT ![k] = @ \/ conn[k] = Nil]
  /\ UNCHANGED <<conn, rawQuery, sock, run>>
  /\ UNCHANGED serverVars

\* Read(): the next payload of the server, or "" with an error.
Read(k) ==
  /\ run[k] = "running"
  /\ ncalls[k] < MaxCalls
  /\ ncalls' = [ncalls EXCEPT ![k] = @ + 1]
  /\ io' = [io EXCEPT ![k] = @ + TransportCalls(conn[k])]
  /\ out' = [out EXCEPT ![k] =
               [op |-> "Read",
                message |-> IF ReadErr(conn[k], Up(k)) = NoErr THEN "payload" ELSE "",
                err |-> ReadErr(conn[k], Up(k))]]
  /\ refused' = [refused EXCEPT ![k] = @ \/ conn[k] = Nil]
  /\ UNCHANGED <<conn, rawQuery, sock, run>>
  /\ UNCHANGED serverVars

\* The transport of WebSocket h of client k fails, or the server closes it.
Break(k, h) ==
  /\ run[k] = "running"
  /\ h \in 1..Len(sock[k])
  /\ sock[k][h] = "open"
  /\ sock' = [sock EXCEPT ![k][h] = "broken"]
  /\ UNCHANGED <<conn, rawQuery, run, out, ncalls, io, refused>>
  /\ UNCHANGED serverVars

\* keepWebsocketAlive(ws): the Send of a heartbeat fails, the function
\* returns and the deferred ws.Close() runs; c.conn is left as it is.  (A
\* heartbeat that is sent changes nothing of the client.)
HeartbeatFails(k, h) ==
  /\ run[k] = "running"
  /\ h \in 1..Len(sock[k])
  /\ sock[k][h] = "broken"
  /\ sock' = [sock EXCEPT ![k][h] = "closed"]
  /\ UNCHANGED <<conn, rawQuery, run, out, ncalls, io, refused>>
  /\ UNCHANGED serverVars

ClientNext ==
  \/ \E k \in Clients, pw \in Passwords : Register(k, pw)
  \/ \E k \in Clients, pw \in Passwords : RegisterFatal(k, pw)
  \/ \E k \in Clients : Send(k)
  \/ \E k \in Clients : Read(k)
  \/ \E k \in Clients, h \in 1..MaxDials : Break(k, h)
  \/ \E k \in Clients, h \in 1..MaxDials : HeartbeatFails(k, h)

\* The clients alone, the server left as it was constructed.
ClientSpec == Init /\ [][ClientNext]_vars

----------------------------------------------------------------------------
Next ==
  \/ \E c \in Conns, q \in Queries : Accept(c, q)
  \/ \E c \in Conns : CheckPassword(c)
  \/ \E c \in Conns : Sever(c)
  \/ \E c \in Conns : ReceiveMsg(c)
  \/ \E c \in Conns : ReceiveErr(c)
  \/ \E c \in Conns : BadFrame(c)
  \/ \E c \in Conns : BroadcastSend(c)
  \/ \E c \in Conns : BroadcastReturn(c)
  \/ \E c \in Conns : Close(c)
  \/ \E c \in Conns : RecvRegister(c)
  \/ ExecAppend
  \/ \E c \in Conns : RecvUnregisterRead(c)
  \/ \E c \in Conns : RecvUnregisterBroadcast(c)
  \/ ExecScan
  \/ ExecCopy
  \/ ExecStore

Spec == Init /\ [][Next]_vars

----------------------------------------------------------------------------
\* Words the properties are stated in

\* seq without every occurrence of x, the order of the rest kept.
RemoveAll(seq, x) == SelectSeq(seq, LAMBDA e : e # x)

IsPrefix(a, b) == Len(a) <= Len(b) /\ \A i \in 1..Len(a) : a[i] = b[i]

NoDup(seq) == \A i, j \in 1..Len(seq) : i # j => seq[i] # seq[j]

\* The Broadcast call of session s went through its whole range and is
\* about to return nil.
CallComplete(s) == pc[s] = "bcast" /\ bidx[s] = brange[s].len

\* The Broadcast call of session s ended at a failed Send.
CallFailed(s) == pc[s] = "bunreg"

\* The Broadcast call of session s starts in this step.
CallStarts(s) == pc[s] = "recv" /\ pc'[s] = "bcast"

\* An unregister request for d has been issued (sent or being sent).
RemoveIssued(d) ==
  unreg[d] > 0 \/ pc[d] = "sendunreg" \/ \E s \in Conns : pc[s] = "bunreg" /\ bws[s] = d

\* The pwd the connection supplied is absent or differs from a non-empty secret.
WrongPwd(c) == password # "" /\ (query[c] = <<>> \/ query[c][1] # password)

\* The connection's query is still in the state: its password test is over
\* and it has not gone on to readMessage.
QueryHeld(c) == pc[c] = "sendreg" \/ (pc[c] \in {"ret", "closed"} /\ ~admitted[c])

\* Nothing of the registry or of a broadcast has ever held c.
NeverRegistered(c) ==
  /\ execR # c
  /\ unreg[c] = 0
  /\ c \notin Range(members)
  /\ \A a \in 1..Len(heap) : c \notin Range(heap[a])
  /\ \A s \in Conns : c \notin Range(sent[s]) /\ bws[s] # c /\ c \notin Range(bpre[s])

----------------------------------------------------------------------------
\* C1: the connections one Broadcast call attempts delivery to are, in order,
\* the membership of one instant of the call (a prefix of it when the call
\* ended at a failed Send).
C1_SnapshotConsistent ==
  \A s \in Conns :
    /\ CallComplete(s) => sent[s] \in bviews[s]
    /\ CallFailed(s) => \E v \in bviews[s] : IsPrefix(sent[s], v)

\* C2: a read of membership that begins after the Add of d returned, with no
\* Remove of d issued, contains d, and one that begins after a Remove of d
\* returned does not contain d.
C2_Linearizable ==
  [][\A s \in Conns : CallStarts(s) =>
       \A d \in Conns :
         /\ (Confirmed(d) /\ ~RemoveIssued(d)) => d \in Range(Membership)
         /\ unreg[d] > 0 => d \notin Range(Membership)]_vars

\* C3: a Broadcast call over N registered connections of which exactly one
\* cannot be delivered to delivers to each of the other N-1.
C3_BroadcastIsolation ==
  \A s \in Conns :
    (/\ CallFailed(s)
     /\ bmods[s] = {}
     /\ {d \in Range(bpre[s]) : SendFails(d)} = {bws[s]})
    => \A d \in Range(bpre[s]) \ {bws[s]} :
         \E i \in 1..Len(sent[s]) : sent[s][i] = d

\* C4: once the unregister request of a Broadcast call that failed on one
\* connection is processed, and execute touched no other connection since the
\* call started, membership is membership before the call without that
\* connection: one shorter, the rest in their order.
C4_EvictsExactlyFailed ==
  (execpc = "select" /\ evX # Nil /\ evOK)
    => /\ Membership = RemoveAll(evPre, evX)
       /\ Len(Membership) = Len(evPre) - 1

C4_Witness ==
  /\ execpc = "select" /\ evX # Nil /\ evOK
  /\ Len(evPre) = NConns
  /\ evPre[1] = evX

\* C5: a Broadcast call attempts delivery to every connection whose
\* registration was confirmed before the call started and that has been
\* healthy and not unregistered since.
C5_ConfirmedReceives ==
  \A s \in Conns :
    (CallComplete(s) \/ CallFailed(s)) => bowed[s] \subseteq Range(sent[s])

\* C6: a connection whose pwd is absent or differs from the non-empty secret
\* goes from Pending to Closed: it is never admitted, no register or unregister
\* request is issued for it, it is never in membership nor a target or the
\* sender of a broadcast, and when its handler is over its transport is closed.
C6_AdmissionDenied ==
  \A c \in Conns :
    (pc[c] \notin {"none", "check"} /\ QueryHeld(c) /\ WrongPwd(c))
    => /\ pc[c] \in {"ret", "closed"}
       /\ ~admitted[c]
       /\ pc[c] = "closed" => closed[c]
       /\ NeverRegistered(c)

C6_Witness ==
  \E c, d, s \in Conns :
    /\ pc[c] = "closed" /\ closed[c] /\ ~admitted[c] /\ WrongPwd(c) /\ query[c] = <<>>
    /\ pc[d] = "closed" /\ closed[d] /\ ~admitted[d] /\ WrongPwd(d) /\ query[d] # <<>>
    /\ CallComplete(s) /\ sent[s] = <<s>>

\* C7: a connection is admitted exactly when the secret is empty or equals
\* the supplied pwd, and an admitted connection is in membership before its
\* first payload is broadcast.
C7_AdmissionSuccess ==
  \A c \in Conns :
    /\ pc[c] = "sendreg" => (admitted[c] /\ ~WrongPwd(c))
    /\ (pc[c] \in {"ret", "closed"} /\ ~admitted[c]) => WrongPwd(c)
    /\ InCall(c) => ~(execpc = "append" /\ execR = c)

\* C8: processing an unregister request for a connection that is not in
\* membership leaves membership as it is, and after one processed request
\* the connection is not in membership, so that a second one changes nothing.
C8_RemoveIdempotent ==
  [][/\ (execpc = "scan" /\ execR \notin Range(Membership))
          => (Membership' = Membership /\ execpc' \in {"scan", "select"})
     /\ (execpc = "copy" /\ execpc' = "select")
          => execR \notin Range(Membership')]_vars

C8_Witness ==
  /\ execpc = "select"
  /\ \E c \in Conns : unreg[c] = 2 /\ c \notin Range(Membership)
  /\ Membership # <<>>

\* C9: a Broadcast call during which execute writes nothing to the pool and
\* no Send fails delivers once to each connection of membership, in
\* membership order, the sender's own connection not left out.
C9_DeliversToAll ==
  \A s \in Conns :
    (CallComplete(s) /\ bmods[s] = {})
    => /\ sent[s] = Membership
       /\ sent[s] = bpre[s]
       /\ NoDup(sent[s])
       /\ s \in Range(Membership) => s \in Range(sent[s])

C9_Witness ==
  \E s \in Conns :
    /\ CallComplete(s) /\ bmods[s] = {}
    /\ Len(sent[s]) = NConns
    /\ s \in Range(sent[s])

\* execute's own steps.
ExecNext ==
  \/ \E c \in Conns : RecvRegister(c)
  \/ \E c \in Conns : RecvUnregisterRead(c)
  \/ \E c \in Conns : RecvUnregisterBroadcast(c)
  \/ ExecAppend
  \/ ExecScan
  \/ ExecCopy
  \/ ExecStore

\* A session is blocked in a send on register or unregister.
Sending(c) == pc[c] \in {"sendreg", "sendunreg", "bunreg"}

\* C10: a session leaves Active only when its own Receive returns an error, whatever
\* fails on other connections, and execute never stops: it always has a next
\* step when a request is waiting or being processed.
C10_ErrorContainment ==
  /\ [][\A y \in Conns :
          Active(y) => (Active(y)' \/ (pc[y] = "recv" /\ pc'[y] = "sendunreg"))]_vars
  /\ []((execpc # "select" \/ \E c \in Conns : Sending(c)) => ENABLED ExecNext)

C10_Witness ==
  /\ execpc = "select"
  /\ evX # Nil /\ evFrom # evX
  /\ pc[evFrom] = "recv"
  /\ \E y \in Conns : y # evX /\ y # evFrom /\ Active(y)

----------------------------------------------------------------------------
\* C11: whenever the transport of an admitted connection has been closed by
\* its session handler (the deferred ws.Close() of registerServer ran), the
\* connection is not in membership.
C11_RemovedBeforeClosed ==
  \A c \in Conns : (admitted[c] /\ closed[c]) => c \notin Range(Membership)

----------------------------------------------------------------------------
\* The server after a first client was refused and its handler returned: the
\* room has a secret, connection 1 came with a wrong pwd and is closed.
FairInit ==
  /\ password = "s3cr3t"
  /\ connections = [arr |-> Nil, len |-> 0]
  /\ heap = <<>>
  /\ execpc = "select"
  /\ execR = Nil
  /\ execI = 0
  /\ pc = [c \in Conns |-> IF c = 1 THEN "closed" ELSE "none"]
  /\ query = [c \in Conns |-> IF c = 1 THEN <<"wrong">> ELSE <<>>]
  /\ transport = [c \in Conns |-> "open"]
  /\ closed = [c \in Conns |-> c = 1]
  /\ brange = [c \in Conns |-> [arr |-> Nil, len |-> 0]]
  /\ bidx = [c \in Conns |-> 0]
  /\ bws = [c \in Conns |-> Nil]
  /\ nmsgs = 0
  /\ sent = [c \in Conns |-> <<>>]
  /\ bpre = [c \in Conns |-> <<>>]
  /\ bviews = [c \in Conns |-> {}]
  /\ bmods = [c \in Conns |-> {}]
  /\ bowed = [c \in Conns |-> {}]
  /\ admitted = [c \in Conns |-> FALSE]
  /\ unreg = [c \in Conns |-> 0]
  /\ members = <<>>
  /\ evX = Nil
  /\ evFrom = Nil
  /\ evPre = <<>>
  /\ evOK = FALSE
  /\ ClientInit

\* The server from there on with execute scheduled fairly: Run starts
\* execute in a goroutine of its own, the Go scheduler lets a runnable
\* goroutine run, and a select with a ready case takes one.  Nothing is
\* assumed of the sessions or of the peers.
FairSpec == FairInit /\ [][Next]_vars /\ WF_vars(ExecNext)

\* The session handler of c is over (readMessage returned after its
\* unregister request was received) and c had been admitted.
Terminated(c) == Closed(c) /\ admitted[c]

\* C12: under fair scheduling of execute, a connection whose Receive failed
\* (its session is sending its unregister request) is eventually absent from
\* membership and absent for ever after; execute never adds to membership a
\* connection whose session handler is over.
C12_NoLeak ==
  /\ \A c \in Conns : (pc[c] = "sendunreg") ~> [](c \notin Range(Membership))
  /\ [][\A c \in Conns :
          (Terminated(c) /\ c \notin Range(Membership))
            => c \notin Range(Membership')]_vars

C12_Witness ==
  \E c, d \in Conns :
    /\ pc[c] = "closed" /\ admitted[c] /\ unreg[c] > 0
    /\ execpc = "select"
    /\ c \notin Range(Membership)
    /\ d \in Range(Membership) /\ d > c

\* A Send of a running Broadcast call failed on x: the call is handing x to
\* execute for removal.
WriteFailed(x) == \E s \in Conns : pc[s] = "bunreg" /\ bws[s] = x

\* C13: after a Send to x failed in a Broadcast call, x is handed to execute
\* for removal and the transport of x is eventually closed, with nothing
\* assumed of the receive loop of x.
C13_WriteFailureCloses ==
  \A x \in Conns :
    WriteFailed(x) ~> (unreg[x] > 0 /\ closed[x])

\* No register or unregister request is waiting to be received or being
\* processed by execute.
Quiescent == execpc = "select" /\ \A c \in Conns : ~Sending(c)

\* C14: in every state with no register or unregister request pending or in
\* progress, membership is the set of the connections whose session is Active
\* (in its receive loop, transport not closed): no Active session is absent
\* from membership and no member's session is Closed.
C14_SingleSourceOfTruth ==
  Quiescent =>
    /\ Range(Membership) = {c \in Conns : Active(c) /\ ~closed[c]}
    /\ \A c \in Range(Membership) : ~Closed(c)

\* C15: in every state the connections list holds no connection more than
\* once.  (Connections are told apart by identity alone: the list holds
\* *websocket.Conn pointers, and the remote address is not looked at.)
C15_NoDuplicates == NoDup(Membership)

\* The receive loop of c is over: its Receive returned an error.
LoopEnded(c) == pc[c] = "sendunreg" \/ (Closed(c) /\ admitted[c])

\* C16: a session that reached Closed (admission denied, or receive loop
\* ended) stays Closed: no step takes it back to the password test, to a
\* register request, to Receive or into a Broadcast call; a session whose
\* receive loop ended goes on to its unregister send and to Closed only.
C16_ClosedAbsorbing ==
  [][\A c \in Conns :
       /\ Closed(c) => /\ Closed(c)'
                       /\ pc[c] = "closed" => pc'[c] = "closed" /\ closed'[c]
                       /\ sent'[c] = <<>> /\ bidx'[c] = 0
       /\ LoopEnded(c) => LoopEnded(c)']_vars

C16_Witness ==
  \E c, d, s \in Conns :
    /\ pc[c] = "closed" /\ admitted[c] /\ unreg[c] > 0
    /\ pc[d] = "closed" /\ ~admitted[d]
    /\ pc[s] = "bcast" /\ bidx[s] > 0

\* Client k makes a call of Send or Read in this step.
Calls(k) == ncalls'[k] = ncalls[k] + 1

\* C17: a call of Send or Read on a client whose c.conn is nil returns the
\* not-connected error, makes no call on a transport and leaves the client
\* as it was (so that Register can still be called and a Send after it can
\* succeed); on a client with a connection, a call whose transport operation
\* fails returns the error of Send or of Read, which is another one, and a
\* call whose transport operation succeeds returns no error.
C17_NotConnected ==
  [][\A k \in Clients :
       Calls(k) =>
         /\ conn'[k] = conn[k] /\ sock'[k] = sock[k]
         /\ run'[k] = run[k] /\ rawQuery'[k] = rawQuery[k]
         /\ conn[k] = Nil =>
              /\ out'[k].err = ErrNotConnected
              /\ io'[k] = io[k]
         /\ (conn[k] # Nil /\ ~Up(k)) =>
              /\ out'[k].err = (IF out'[k].op = "Send" THEN ErrSend ELSE ErrRead)
              /\ out'[k].err # ErrNotConnected
         /\ Up(k) => out'[k].err = NoErr]_vars

C17_Witness ==
  \E k \in Clients :
    /\ refused[k]
    /\ conn[k] # Nil
    /\ out[k].op = "Send" /\ out[k].err = NoErr

\* Connection d has been registered during the whole Broadcast call of s so
\* far: it is in the content of c.connections at the start of the call and
\* after every append and splice completed since, and execute is not
\* processing a request for it.
StaysRegistered(s, d) ==
  /\ \A v \in bviews[s] : d \in Range(v)
  /\ execR # d

\* C18: one Broadcast call attempts delivery to no connection twice, and a
\* call that went through its whole range has attempted delivery to every
\* connection that stayed registered during the call, whatever execute did
\* to the pool meanwhile.
C18_AtMostOnce ==
  \A s \in Conns :
    /\ InCall(s) => NoDup(sent[s])
    /\ CallComplete(s) =>
         \A d \in Conns : StaysRegistered(s, d) => d \in Range(sent[s])

\* C19: with execute scheduled fairly, every send on register or unregister
\* (of registerServer, of readMessage, of Broadcast after a failed Send, the
\* failed connection being the sender's own or another) is received, and in
\* no state is a session blocked in such a send while execute has no step.
C19_SendsComplete ==
  /\ \A c \in Conns : (pc[c] = "sendreg") ~> (pc[c] # "sendreg")
  /\ \A c \in Conns : (pc[c] = "sendunreg") ~> (pc[c] = "ret" \/ pc[c] = "closed")
  /\ \A c \in Conns : (pc[c] = "bunreg") ~> (pc[c] # "bunreg")
  /\ []((\E c \in Conns : Sending(c)) => ENABLED ExecNext)

C19_Witness ==
  /\ evX # Nil /\ evFrom = evX
  /\ execpc = "select"
  /\ \E c \in Conns : c # evX /\ admitted[c] /\ pc[c] = "closed" /\ unreg[c] > 0

----------------------------------------------------------------------------
\* removeConn by itself

\* The backing arrays removeConn is given: every sequence of connections of
\* length up to MaxLen.
Arrays == UNION {[1..n -> Conns] : n \in 0..MaxLen}

\* execute has received elem on unregister and calls
\* removeConn(c.connections, elem): c.connections is any slice over any
\* array (the nil slice too), elem any connection.
RemoveInit ==
  /\ password = ""
  /\ \E a \in Arrays, n \in 0..MaxLen :
       /\ n <= Len(a)
       /\ heap = IF a = <<>> THEN <<>> ELSE <<a>>
       /\ connections = IF a = <<>> THEN [arr |-> Nil, len |-> 0]
                                    ELSE [arr |-> 1, len |-> n]
       /\ members = SubSeq(a, 1, n)
  /\ execpc = "scan"
  /\ execR \in Conns
  /\ execI = 0
  /\ pc = [c \in Conns |-> "none"]
  /\ query = [c \in Conns |-> <<>>]
  /\ transport = [c \in Conns |-> "open"]
  /\ closed = [c \in Conns |-> FALSE]
  /\ brange = [c \in Conns |-> [arr |-> Nil, len |-> 0]]
  /\ bidx = [c \in Conns |-> 0]
  /\ bws = [c \in Conns |-> Nil]
  /\ nmsgs = 0
  /\ sent = [c \in Conns |-> <<>>]
  /\ bpre = [c \in Conns |-> <<>>]
  /\ bviews = [c \in Conns |-> {}]
  /\ bmods = [c \in Conns |-> {}]
  /\ bowed = [c \in Conns |-> {}]
  /\ admitted = [c \in Conns |-> FALSE]
  /\ unreg = [c \in Conns |-> 0]
  /\ evX = Nil
  /\ evFrom = Nil
  /\ evPre = <<>>
  /\ evOK = FALSE
  /\ ClientInit

\* The steps of removeConn and the assignment of its result.
RemoveNext ==
  \/ ExecScan
  \/ ExecCopy
  \/ ExecStore

RemoveSpec == RemoveInit /\ [][RemoveNext]_vars

\* seq without its first x, the order of the rest kept; seq when it has no x.
RECURSIVE RemoveFirst(_, _)
RemoveFirst(seq, x) ==
  IF seq = <<>> THEN <<>>
  ELSE IF Head(seq) = x THEN Tail(seq)
  ELSE <<Head(seq)>> \o RemoveFirst(Tail(seq), x)

\* removeConn returns in this step, and its result is assigned.
RemoveReturns == execpc \in {"scan", "copy"} /\ execpc' = "select"

\* C20: the slice removeConn(slice, elem) returns is slice without the first
\* occurrence of elem, the others in their order, and slice itself when elem
\* does not occur in it (the empty slice included).
C20_RemoveFirst ==
  [][RemoveReturns =>
       /\ Membership' = RemoveFirst(members, execR)
       /\ execR \notin Range(members) => Membership' = members]_vars

C20_Witness ==
  /\ execpc = "copy" /\ execI = connections.len
  /\ members = <<1, 2, 1>> /\ execR = 1
  /\ View(Spliced(connections)) = <<2, 1>>

====
